---- MODULE Spec2Model ----
(***************************************************************************)
(* Model of the CISA KEV catalog cache and search engine of main.py:       *)
(* the process-wide kev_data_cache, its lazy initialisation by             *)
(* initialize_kev_data / download_kev_data, and the two handlers that use  *)
(* it, get_kev_resource and search_kev.  Handlers are coroutines on one    *)
(* asyncio event loop: a step of the model is the code a coroutine runs    *)
(* between two suspension points (await).                                  *)
(*                                                                         *)
(* Python str values are sequences of one-character strings.               *)
(***************************************************************************)
EXTENDS Integers, Sequences, FiniteSets, TLC

VARIABLES
    kev_data_cache,  \* the global of line 26: NoneCache or a catalog
    fetches,         \* how many times download_kev_data has been called
    fetchFailed,     \* some download_kev_data has returned the empty catalog
    calls            \* per invocation: handler, arguments, suspension point, what
                     \* its own download did (fetched), whether it started after a
                     \* failed download (afterFail), the cache value it returned or
                     \* searched (observed) and its response (resp)

vars == <<kev_data_cache, fetches, fetchFailed, calls>>

----------------------------------------------------------------------------
(* Bounds of the model.                                                    *)

\* number of handler invocations of the concurrent specification
NCallers == 3
\* longest catalog the upstream feed serves in the search specification
MaxCatalogLen == 3
\* longest query string of the search specification
MaxQueryLen == 2

\* number of handler invocations of the specification with fairness
NFairCallers == 2

\* the longest sequence number of an identifier tried
MaxSeqDigits == 5

\* the most cpeMatch entries and references in a record of the NVD
MaxCpe == 15
MaxRefs == 8

----------------------------------------------------------------------------
(* Python values.                                                          *)

\* Python's None where a str is expected (dict.get without default); it is
\* no str: every str is a sequence of one-character strings.
NoneVal == <<"None">>

\* kev_data_cache = None (main.py line 26)
NoneCache == [py |-> "None"]

\* ord(ch) for the characters that occur
Ord(ch) ==
    CASE ch = " " -> 32
      [] ch = "-" -> 45
      [] ch = "1" -> 49
      [] ch = "2" -> 50
      [] ch = "3" -> 51
      [] ch = "C" -> 67
      [] ch = "c" -> 99

\* str.lower() on one character
LowerCh(ch) == IF ch = "C" THEN "c" ELSE ch

\* str.lower()
Lower(s) == [i \in 1..Len(s) |-> LowerCh(s[i])]

\* Python's `needle in hay` on str
In(needle, hay) ==
    \E i \in 0..(Len(hay) - Len(needle)) :
        SubSeq(hay, i + 1, i + Len(needle)) = needle

\* Python's a < b on str: lexicographic by code point
RECURSIVE StrLess(_, _)
StrLess(a, b) ==
    IF b = <<>> THEN FALSE
    ELSE IF a = <<>> THEN TRUE
    ELSE IF Ord(Head(a)) # Ord(Head(b)) THEN Ord(Head(a)) < Ord(Head(b))
    ELSE StrLess(Tail(a), Tail(b))

\* dict.get(k, default)
Get(d, k, default) == IF k \in DOMAIN d THEN d[k] ELSE default

\* " ".join(parts)
RECURSIVE Join(_)
Join(parts) ==
    IF parts = <<>> THEN <<>>
    ELSE IF Len(parts) = 1 THEN parts[1]
    ELSE parts[1] \o <<" ">> \o Join(Tail(parts))

----------------------------------------------------------------------------
(* search_kev: the code after the last suspension point (lines 706-780).   *)

\* the cap on max_results (lines 707-708)
MaxResultsCap == 50

\* valid_fields (line 710)
valid_fields == {"all", "cve_id", "vendor", "product", "vulnerability_name", "date_added"}

\* searchable_text with requiredAction searched as well
searchable_text_with_action(vuln) ==
    Lower(Join(<< Get(vuln, "cveID", <<>>),
                  Get(vuln, "vendorProject", <<>>),
                  Get(vuln, "product", <<>>),
                  Get(vuln, "vulnerabilityName", <<>>),
                  Get(vuln, "shortDescription", <<>>),
                  Get(vuln, "requiredAction", <<>>),
                  Get(vuln, "notes", <<>>) >>))

\* the text searched for field = "all" (lines 726-733)
searchable_text(vuln) ==
    Lower(Join(<< Get(vuln, "cveID", <<>>),
                  Get(vuln, "vendorProject", <<>>),
                  Get(vuln, "product", <<>>),
                  Get(vuln, "vulnerabilityName", <<>>),
                  Get(vuln, "shortDescription", <<>>),
                  Get(vuln, "notes", <<>>) >>))

\* match_cve_id with the dashes dropped from both sides before the test
match_cve_id_dashless(vuln, query_lower) ==
    LET NoDash(str) == SelectSeq(str, LAMBDA ch : ch # "-")
        cve_id == NoDash(Lower(Get(vuln, "cveID", <<>>)))
    IN In(NoDash(query_lower), cve_id) \/ In(cve_id, NoDash(query_lower))

\* the value of `match` for field = "cve_id" (lines 736-737)
match_cve_id(vuln, query_lower) ==
    LET cve_id == Lower(Get(vuln, "cveID", <<>>)) IN
    In(query_lower, cve_id) \/ In(cve_id, query_lower)

\* the value of `match` for one catalog entry (lines 722-745)
Match(vuln, query, field) ==
    LET query_lower == Lower(query) IN
    CASE field = "all" -> In(query_lower, searchable_text(vuln))
      [] field = "cve_id" -> match_cve_id(vuln, query_lower)
      [] field = "vendor" -> In(query_lower, Lower(Get(vuln, "vendorProject", <<>>)))
      [] field = "product" -> In(query_lower, Lower(Get(vuln, "product", <<>>)))
      [] field = "vulnerability_name" ->
            In(query_lower, Lower(Get(vuln, "vulnerabilityName", <<>>)))
      [] field = "date_added" -> In(query, Get(vuln, "dateAdded", <<>>))
      [] OTHER -> FALSE

\* the dict appended to results for a matching entry (lines 748-759)
Project(vuln) ==
    [ cve_id               |-> Get(vuln, "cveID", NoneVal),
      vendor               |-> Get(vuln, "vendorProject", NoneVal),
      product              |-> Get(vuln, "product", NoneVal),
      vulnerability_name   |-> Get(vuln, "vulnerabilityName", NoneVal),
      date_added           |-> Get(vuln, "dateAdded", NoneVal),
      short_description    |-> Get(vuln, "shortDescription", NoneVal),
      required_action      |-> Get(vuln, "requiredAction", NoneVal),
      due_date             |-> Get(vuln, "dueDate", NoneVal),
      known_ransomware_use |-> Get(vuln, "knownRansomwareCampaignUse", NoneVal),
      notes                |-> Get(vuln, "notes", NoneVal) ]

\* the for loop over the catalog, from entry i on (lines 721-762): a match is
\* appended first and the length tested after it
RECURSIVE Scan(_, _, _, _, _, _)
Scan(vulns, i, results, query, field, max_results) ==
    IF i > Len(vulns) THEN results
    ELSE IF Match(vulns[i], query, field)
         THEN LET appended == Append(results, Project(vulns[i])) IN
              IF Len(appended) >= max_results
              THEN appended
              ELSE Scan(vulns, i + 1, appended, query, field, max_results)
         ELSE Scan(vulns, i + 1, results, query, field, max_results)

\* one insertion of list.sort(key=date_added, reverse=True): x goes behind
\* every element whose key is not smaller (the sort is stable)
RECURSIVE InsertDesc(_, _)
InsertDesc(sorted, x) ==
    IF sorted = <<>> THEN <<x>>
    ELSE IF StrLess(Head(sorted).date_added, x.date_added)
         THEN <<x>> \o sorted
         ELSE <<Head(sorted)>> \o InsertDesc(Tail(sorted), x)

\* results.sort(key=lambda x: x.get("date_added", ""), reverse=True) (line 765)
RECURSIVE SortDesc(_)
SortDesc(results) ==
    IF results = <<>> THEN <<>>
    ELSE InsertDesc(SortDesc(SubSeq(results, 1, Len(results) - 1)),
                    results[Len(results)])

\* line 765 raises TypeError: the key "date_added" is always present in a
\* result, so the default "" is never used and a missing dateAdded gives the
\* key None, which < does not compare; a list of one element is not compared
SortRaises(results) ==
    /\ Len(results) >= 2
    /\ \E i \in 1..Len(results) : results[i].date_added = NoneVal

\* what search_kev hands back once kev_data_cache is read (lines 706-780);
\* status "raised" stands for an exception leaving the handler
SearchBody(cache, query, field, max_results) ==
    LET clamped == IF max_results > MaxResultsCap THEN MaxResultsCap ELSE max_results IN
    IF field \notin valid_fields
    THEN [status |-> "error"]
    ELSE LET results == Scan(cache.vulnerabilities, 1, <<>>, query, field, clamped) IN
         IF SortRaises(results)
         THEN [status |-> "raised"]
         ELSE LET response == [ status        |-> "success",
                                query         |-> query,
                                field         |-> field,
                                total_results |-> Len(results),
                                results       |-> SortDesc(results) ] IN
              IF Len(results) = 0
              THEN response @@ [message |-> "No vulnerabilities found"]
              ELSE response

----------------------------------------------------------------------------
(* get_cve_from_nist: the identifier (lines 238-249).                      *)

\* str.upper() on one character
UpperCh(ch) ==
    CASE ch = "c" -> "C"
      [] ch = "v" -> "V"
      [] ch = "e" -> "E"
      [] OTHER -> ch

\* str.upper()
Upper(s) == [i \in 1..Len(s) |-> UpperCh(s[i])]

\* str.isspace() on one character
IsSpace(ch) == ch \in {" ", "\t", "\n", "\r"}

\* str.lstrip()
RECURSIVE LStrip(_)
LStrip(s) ==
    IF s # <<>> /\ IsSpace(Head(s)) THEN LStrip(Tail(s)) ELSE s

\* str.rstrip()
RECURSIVE RStrip(_)
RStrip(s) ==
    IF s # <<>> /\ IsSpace(s[Len(s)]) THEN RStrip(SubSeq(s, 1, Len(s) - 1)) ELSE s

\* str.strip()
Strip(s) == RStrip(LStrip(s))

\* str.startswith(prefix)
StartsWith(s, prefix) ==
    Len(s) >= Len(prefix) /\ SubSeq(s, 1, Len(prefix)) = prefix

\* the prefix "CVE-" (lines 240-241)
CvePrefix == <<"C", "V", "E", "-">>

\* the number of digits of the year in the pattern (line 245: \d{4})
YearDigits == 4

\* the least number of digits of the sequence number (line 245: \d{4,})
MinSeqDigits == 4

\* normalize_cve_id with the prefix tested before the identifier is uppercased
normalize_cve_id_case_sensitive(cve_id) ==
    LET stripped == Strip(cve_id) IN
    IF StartsWith(stripped, CvePrefix) THEN Upper(stripped)
    ELSE CvePrefix \o Upper(stripped)

\* the normalized identifier (lines 239-241)
normalize_cve_id(cve_id) ==
    LET upper == Strip(Upper(cve_id)) IN
    IF StartsWith(upper, CvePrefix) THEN upper ELSE CvePrefix \o upper

\* \d on one character
IsDigit(ch) == ch \in {"0", "1", "2", "3", "4", "5", "6", "7", "8", "9"}

\* the number of digits s starts with
RECURSIVE DigitRun(_)
DigitRun(s) ==
    IF s # <<>> /\ IsDigit(Head(s)) THEN 1 + DigitRun(Tail(s)) ELSE 0

\* the pattern without its closing $
valid_cve_format_unanchored(cve_id) ==
    /\ StartsWith(cve_id, CvePrefix)
    /\ LET rest == SubSeq(cve_id, Len(CvePrefix) + 1, Len(cve_id)) IN
       /\ DigitRun(rest) >= YearDigits
       /\ Len(rest) > YearDigits
       /\ rest[YearDigits + 1] = "-"
       /\ DigitRun(SubSeq(rest, YearDigits + 2, Len(rest))) >= MinSeqDigits

\* re.match(r'^CVE-\d{4}-\d{4,}$', cve_id) (line 245); the identifier is
\* stripped, so $ has no trailing newline to skip
valid_cve_format(cve_id) ==
    /\ StartsWith(cve_id, CvePrefix)
    /\ LET rest == SubSeq(cve_id, Len(CvePrefix) + 1, Len(cve_id)) IN
       /\ DigitRun(rest) >= YearDigits
       /\ Len(rest) > YearDigits
       /\ rest[YearDigits + 1] = "-"
       /\ LET seq == SubSeq(rest, YearDigits + 2, Len(rest)) IN
          /\ Len(seq) >= MinSeqDigits
          /\ DigitRun(seq) = Len(seq)

----------------------------------------------------------------------------
(* get_cve_from_nist: the summary of one record (lines 277-382).  A JSON   *)
(* object is a record, a key it lacks is absent from the record; a JSON    *)
(* number is the sequence of its characters.                               *)

\* {} (a dict without keys)
EmptyDict == <<>>

\* the entry of cvss_data for a v3.1 or v3.0 scoring block (lines 286-290,
\* 295-299)
cvss_v3(block) ==
    [ score    |-> Get(Get(block, "cvssData", EmptyDict), "baseScore", NoneVal),
      severity |-> Get(Get(block, "cvssData", EmptyDict), "baseSeverity", NoneVal),
      vector   |-> Get(Get(block, "cvssData", EmptyDict), "vectorString", NoneVal) ]

\* the entry of cvss_data for a v2 scoring block: its severity lies beside
\* cvssData, not in it (lines 304-308)
cvss_v2(block) ==
    [ score    |-> Get(Get(block, "cvssData", EmptyDict), "baseScore", NoneVal),
      severity |-> Get(block, "baseSeverity", NoneVal),
      vector   |-> Get(Get(block, "cvssData", EmptyDict), "vectorString", NoneVal) ]

\* `key in metrics and metrics[key]`: the scheme is there and not empty
HasScheme(metrics, key) == key \in DOMAIN metrics /\ metrics[key] # <<>>

\* cvss_data (lines 280-308)
cvss_data(cve_item) ==
    LET metrics == Get(cve_item, "metrics", EmptyDict) IN
    (IF HasScheme(metrics, "cvssMetricV31")
     THEN "cvss_v31" :> cvss_v3(metrics["cvssMetricV31"][1]) ELSE EmptyDict)
    @@ (IF HasScheme(metrics, "cvssMetricV30")
        THEN "cvss_v30" :> cvss_v3(metrics["cvssMetricV30"][1]) ELSE EmptyDict)
    @@ (IF HasScheme(metrics, "cvssMetricV2")
        THEN "cvss_v2" :> cvss_v2(metrics["cvssMetricV2"][1]) ELSE EmptyDict)

\* the values of the English entries of a list of language-tagged entries
RECURSIVE EnglishValues(_)
EnglishValues(descs) ==
    IF descs = <<>> THEN <<>>
    ELSE (IF Get(Head(descs), "lang", NoneVal) = <<"e", "n">>
          THEN <<Get(Head(descs), "value", NoneVal)>> ELSE <<>>)
         \o EnglishValues(Tail(descs))

\* cwe_list (lines 311-316)
RECURSIVE cwe_list_of(_)
cwe_list_of(weaknesses) ==
    IF weaknesses = <<>> THEN <<>>
    ELSE EnglishValues(Get(Head(weaknesses), "description", <<>>))
         \o cwe_list_of(Tail(weaknesses))

\* cwe_list with None for a record that has no weaknesses
cwe_list_or_none(cve_item) ==
    IF "weaknesses" \in DOMAIN cve_item THEN cwe_list_of(cve_item["weaknesses"]) ELSE NoneVal

cwe_list(cve_item) == cwe_list_of(Get(cve_item, "weaknesses", <<>>))

\* description: the value of the first English entry, "" when it has no
\* value or there is none (lines 319-324)
RECURSIVE description_of(_)
description_of(descriptions) ==
    IF descriptions = <<>> THEN <<>>
    ELSE IF Get(Head(descriptions), "lang", NoneVal) = <<"e", "n">>
         THEN Get(Head(descriptions), "value", <<>>)
         ELSE description_of(Tail(descriptions))

description(cve_item) == description_of(Get(cve_item, "descriptions", <<>>))

\* cpe_info with the None values removed (lines 335-342)
cpe_info(cpe) ==
    (IF "criteria" \in DOMAIN cpe THEN "cpe23Uri" :> cpe["criteria"] ELSE EmptyDict)
    @@ (IF "versionStartIncluding" \in DOMAIN cpe
        THEN "versionStartIncluding" :> cpe["versionStartIncluding"] ELSE EmptyDict)
    @@ (IF "versionEndExcluding" \in DOMAIN cpe
        THEN "versionEndExcluding" :> cpe["versionEndExcluding"] ELSE EmptyDict)
    @@ (IF "versionEndIncluding" \in DOMAIN cpe
        THEN "versionEndIncluding" :> cpe["versionEndIncluding"] ELSE EmptyDict)

\* the loop over one cpeMatch list (lines 333-343)
RECURSIVE cpe_of_matches(_)
cpe_of_matches(cpe_matches) ==
    IF cpe_matches = <<>> THEN <<>>
    ELSE (IF Get(Head(cpe_matches), "vulnerable", FALSE)
          THEN <<cpe_info(Head(cpe_matches))>> ELSE <<>>)
         \o cpe_of_matches(Tail(cpe_matches))

\* the loop over the nodes of one configuration (lines 331-343)
RECURSIVE cpe_of_nodes(_)
cpe_of_nodes(nodes) ==
    IF nodes = <<>> THEN <<>>
    ELSE cpe_of_matches(Get(Head(nodes), "cpeMatch", <<>>)) \o cpe_of_nodes(Tail(nodes))

\* the loop over the configurations (lines 329-343)
RECURSIVE cpe_of_configs(_)
cpe_of_configs(configurations) ==
    IF configurations = <<>> THEN <<>>
    ELSE cpe_of_nodes(Get(Head(configurations), "nodes", <<>>))
         \o cpe_of_configs(Tail(configurations))

\* the number of CPE configurations kept (line 363)
CpeCap == 10

\* the number of references kept (line 364)
RefCap == 5

\* list[:n]
Slice(list, n) == SubSeq(list, 1, IF Len(list) < n THEN Len(list) ELSE n)

\* cpe_configurations cut before the entries that are not vulnerable are
\* dropped
cpe_configurations_cut_first(cve_item) ==
    LET RECURSIVE MatchesOfNodes(_)
        MatchesOfNodes(nodes) ==
            IF nodes = <<>> THEN <<>>
            ELSE Get(Head(nodes), "cpeMatch", <<>>) \o MatchesOfNodes(Tail(nodes))
        RECURSIVE MatchesOfConfigs(_)
        MatchesOfConfigs(configurations) ==
            IF configurations = <<>> THEN <<>>
            ELSE MatchesOfNodes(Get(Head(configurations), "nodes", <<>>))
                 \o MatchesOfConfigs(Tail(configurations))
    IN cpe_of_matches(Slice(MatchesOfConfigs(Get(cve_item, "configurations", <<>>)), CpeCap))

\* cpe_configurations[:10] (lines 327-343, 363)
cpe_configurations(cve_item) ==
    Slice(cpe_of_configs(Get(cve_item, "configurations", <<>>)), CpeCap)

\* one reference (lines 348-352)
reference(ref) ==
    [ url    |-> Get(ref, "url", NoneVal),
      source |-> Get(ref, "source", NoneVal),
      tags   |-> Get(ref, "tags", <<>>) ]

\* references[:5] (lines 346-352, 364)
references(cve_item) ==
    LET refs == Get(cve_item, "references", <<>>) IN
    Slice([i \in 1..Len(refs) |-> reference(refs[i])], RefCap)

\* primary_key with the oldest scheme tried first
primary_key_oldest_first(cvss) ==
    IF "cvss_v2" \in DOMAIN cvss THEN <<"cvss_v2">>
    ELSE IF "cvss_v30" \in DOMAIN cvss THEN <<"cvss_v30">>
    ELSE IF "cvss_v31" \in DOMAIN cvss THEN <<"cvss_v31">>
    ELSE <<>>

\* the key of cvss_data that primary_cvss is taken from, none when cvss_data
\* is empty (lines 370-382)
primary_key(cvss) ==
    IF "cvss_v31" \in DOMAIN cvss THEN <<"cvss_v31">>
    ELSE IF "cvss_v30" \in DOMAIN cvss THEN <<"cvss_v30">>
    ELSE IF "cvss_v2" \in DOMAIN cvss THEN <<"cvss_v2">>
    ELSE <<>>

\* result (lines 355-382)
found_result(cve_item) ==
    LET cvss == cvss_data(cve_item)
        primary == primary_key(cvss)
    IN [ status             |-> "found",
         cve_id             |-> Get(cve_item, "id", NoneVal),
         published          |-> Get(cve_item, "published", NoneVal),
         last_modified      |-> Get(cve_item, "lastModified", NoneVal),
         description        |-> description(cve_item),
         cvss_scores        |-> cvss,
         cwe                |-> cwe_list(cve_item),
         cpe_configurations |-> cpe_configurations(cve_item),
         references         |-> references(cve_item),
         source_identifier  |-> Get(cve_item, "sourceIdentifier", NoneVal),
         vuln_status        |-> Get(cve_item, "vulnStatus", NoneVal) ]
       @@ (IF primary = <<>> THEN EmptyDict
           ELSE [ primary_severity |-> cvss[primary[1]].severity,
                  primary_score    |-> cvss[primary[1]].score ])

----------------------------------------------------------------------------
(* get_cve_from_nist: the request and the envelope (lines 79-109, 253-401). *)

\* JSON null where an object is expected
NullDict == [py |-> "None"]

\* How the GET of make_nist_request ends:
\*   "200"            status 200 and a JSON body
\*   "200_not_json"   status 200, response.json() raises
\*   "403", "404"     those statuses
\*   "other_2xx"      another status of success (204, ...)
\*   "3xx"            a status of redirection that is not followed (304, ...)
\*   "from_400"       another status from 400 on (500, 429, ...)
\*   "client_error"   session.get raises aiohttp.ClientError
AnswerKinds ==
    {"200", "200_not_json", "403", "404", "other_2xx", "3xx", "from_400",
     "client_error"}

\* what make_nist_request does with the answer (lines 97-109): it returns the
\* body, returns None, or raises; raise_for_status raises only from 400 on,
\* so another status below 400 falls off the end of the function
make_nist_request(answer) ==
    CASE answer.kind = "200" ->
            IF Get(answer.body, "totalResults", 0) > 0
            THEN [ret |-> "data", data |-> answer.body]
            ELSE [ret |-> "None"]
      [] answer.kind = "200_not_json" -> [ret |-> "Exception"]
      [] answer.kind = "403" -> [ret |-> "Exception"]
      [] answer.kind = "404" -> [ret |-> "None"]
      [] answer.kind \in {"other_2xx", "3xx"} -> [ret |-> "None"]
      [] answer.kind = "from_400" -> [ret |-> "ClientError"]
      [] answer.kind = "client_error" -> [ret |-> "ClientError"]

\* the envelope of a rejected identifier (lines 246-249): it has no cve_id
invalid_format_envelope ==
    [status |-> "error", message |-> "Invalid CVE format"]

\* get_cve_from_nist from the return of make_nist_request to its end
\* (lines 258-401); `"cvssMetricV31" in metrics` raises TypeError when metrics
\* is null (line 284)
lookup_result(cve_id, answer) ==
    LET response_data == make_nist_request(answer) IN
    CASE response_data.ret = "ClientError" ->
            [status |-> "error", message |-> "Failed to connect to NIST NVD API",
             cve_id |-> cve_id]
      [] response_data.ret = "Exception" ->
            [status |-> "error", message |-> "Unexpected error", cve_id |-> cve_id]
      [] response_data.ret = "None" ->
            [status |-> "not_found",
             message |-> "not found in NIST National Vulnerability Database",
             cve_id |-> cve_id]
      [] response_data.ret = "data" ->
            LET vulnerabilities == Get(response_data.data, "vulnerabilities", <<>>) IN
            IF vulnerabilities = <<>>
            THEN [status |-> "not_found", message |-> "No vulnerability data found",
                  cve_id |-> cve_id]
            ELSE LET cve_item == Get(vulnerabilities[1], "cve", EmptyDict) IN
                 IF Get(cve_item, "metrics", EmptyDict) = NullDict
                 THEN [status |-> "error", message |-> "Unexpected error",
                       cve_id |-> cve_id]
                 ELSE found_result(cve_item)

----------------------------------------------------------------------------
(* The upstream feed and the inputs of the handlers.                       *)

\* rows of the feed; a key the feed leaves out is absent from the record
Entry1 ==
    [ cveID |-> <<"C", "-", "1">>, vendorProject |-> <<"C">>, product |-> <<"1">>,
      vulnerabilityName |-> <<"c", "2">>, dateAdded |-> <<"2", "1">>,
      shortDescription |-> <<"2">>, requiredAction |-> <<"2">>, dueDate |-> <<"3">>,
      knownRansomwareCampaignUse |-> <<"c">>, notes |-> <<"-">> ]

Entry2 ==
    [ cveID |-> <<"1">>, vendorProject |-> <<"c", "-">>, product |-> <<"2">>,
      vulnerabilityName |-> <<"C", "2">>, dateAdded |-> <<"3">>,
      shortDescription |-> <<"1">>, requiredAction |-> <<"1">>, dueDate |-> <<"2", "2">>,
      knownRansomwareCampaignUse |-> <<"c">> ]

Entry3 ==
    [ product |-> <<"C">>, vulnerabilityName |-> <<"2">>, dateAdded |-> <<"1", "2">>,
      requiredAction |-> <<"1">>, dueDate |-> <<"-", "1">>,
      knownRansomwareCampaignUse |-> <<"1">>, notes |-> <<"c">> ]

Entry4 ==
    [ cveID |-> <<"C", "1">>, vendorProject |-> <<"1">>, requiredAction |-> <<"-">> ]

EntryPool == {Entry1, Entry2, Entry3, Entry4}

\* the JSON document of the feed: {"vulnerabilities": [...], "count": n}
Catalog(rows) == [vulnerabilities |-> rows, count |-> Len(rows)]

\* what download_kev_data returns when the download fails (lines 39, 42)
EmptyCatalog == [vulnerabilities |-> <<>>, count |-> 0]

\* every feed of at most MaxCatalogLen rows
Catalogs ==
    { Catalog(rows) : rows \in UNION { [1..n -> EntryPool] : n \in 0..MaxCatalogLen } }

\* the feed of the concurrent specification
SmallFeed == { Catalog(<<Entry3, Entry1>>) }

\* how the GET of download_kev_data ends: status 200, another status
\* (line 37), or an exception of the transport or of response.json() (line 40)
Outcomes == {"200", "other_status", "exception"}

\* what download_kev_data returns (lines 33-42): the body of a 200 response,
\* else the empty catalog
download_kev_data(outcome, body) ==
    IF outcome = "200" THEN body ELSE EmptyCatalog

\* the bodies a response can carry: a feed when the status is 200
Bodies(outcome, feeds) == IF outcome = "200" THEN feeds ELSE {EmptyCatalog}

QueryChars == {"C", "-", "1"}

\* every query of at most MaxQueryLen characters
Queries == UNION { [1..n -> QueryChars] : n \in 0..MaxQueryLen }

\* the field selectors tried: the valid ones and one that is not
Fields == valid_fields \cup {"severity"}

\* the values of max_results tried
MaxResultsValues == {-1, 0, 1, 2, MaxResultsCap + 1}

Callers == 1..NCallers

----------------------------------------------------------------------------
(* The inputs of get_cve_from_nist: identifiers, answers of the NVD and    *)
(* the records they carry.                                                 *)

Digit == <<"0", "1", "2", "3", "4", "5", "6", "7", "8", "9">>

\* the decimal numeral of i < 100
Num(i) ==
    IF i < 10 THEN <<Digit[i + 1]>> ELSE <<Digit[(i \div 10) + 1], Digit[(i % 10) + 1]>>

\* a run of n digits
Digits(n) == [i \in 1..n |-> Digit[(i % 10) + 1]]

\* whitespace around an identifier
IdMargins == { <<<<>>, <<>>>>, <<<<" ">>, <<" ">>>>, <<<<"\t", " ">>, <<>>>> }

\* spellings of the prefix, and none
IdPrefixes ==
    { <<>>, CvePrefix, <<"c", "v", "e", "-">>, <<"C", "v", "e", "-">> }

\* what follows the prefix: year and sequence number of several lengths, with
\* and without trailing text, and some text of no such shape
IdBodies ==
    { Digits(y) \o <<"-">> \o Digits(n) \o tail :
        y \in (YearDigits - 1)..(YearDigits + 1),
        n \in (MinSeqDigits - 1)..MaxSeqDigits,
        tail \in {<<>>, <<"e">>} }
    \cup { <<>>, Digits(YearDigits) \o Digits(MinSeqDigits),
           Digits(YearDigits) \o <<" ", "-">> \o Digits(MinSeqDigits) }

\* the identifiers a lookup is called with
LookupIds ==
    { m[1] \o prefix \o body \o m[2] :
        m \in IdMargins, prefix \in IdPrefixes, body \in IdBodies }

\* an identifier in canonical form, and one without prefix
CanonicalId == CvePrefix \o Digits(YearDigits) \o <<"-">> \o Digits(MinSeqDigits)
BareId == Digits(YearDigits) \o <<"-">> \o Digits(MinSeqDigits)

\* scoring blocks of the three schemes; the v2 score is the highest
V31Blocks ==
    << [ cvssData |-> [ baseScore |-> <<"5", ".", "0">>,
                        baseSeverity |-> <<"M", "E", "D", "I", "U", "M">>,
                        vectorString |-> <<"3", ".", "1", "/", "A">> ] ],
       [ cvssData |-> [ baseScore |-> <<"9", ".", "8">>,
                        baseSeverity |-> <<"C", "R", "I", "T", "I", "C", "A", "L">> ] ] >>

V30Blocks ==
    << [ cvssData |-> [ baseScore |-> <<"7", ".", "5">>,
                        baseSeverity |-> <<"H", "I", "G", "H">>,
                        vectorString |-> <<"3", ".", "0", "/", "A">> ] ],
       [ source |-> <<"n", "v", "d">> ] >>

V2Blocks ==
    << [ cvssData |-> [ baseScore |-> <<"1", "0", ".", "0">>,
                        vectorString |-> <<"A", "V", ":", "N">> ],
         baseSeverity |-> <<"H", "I", "G", "H">> ],
       [ cvssData |-> [ baseScore |-> <<"2", ".", "1">>,
                        baseSeverity |-> <<"L", "O", "W">> ] ] >>

\* one scheme of metrics: absent, an empty list, or a list of its blocks
SchemeParts(key, blocks) ==
    { EmptyDict, key :> <<>>, key :> <<blocks[1]>>, key :> blocks,
      key :> <<blocks[2], blocks[1]>> }

\* metrics: absent, null, or an object with any of the schemes
MetricsParts ==
    { EmptyDict, "metrics" :> NullDict }
    \cup { "metrics" :> (p31 @@ p30 @@ p2) :
             p31 \in SchemeParts("cvssMetricV31", V31Blocks),
             p30 \in SchemeParts("cvssMetricV30", V30Blocks),
             p2 \in SchemeParts("cvssMetricV2", V2Blocks) }

English(value) == [lang |-> <<"e", "n">>, value |-> value]
Spanish(value) == [lang |-> <<"e", "s">>, value |-> value]

WeaknessParts ==
    { EmptyDict,
      "weaknesses" :> <<>>,
      "weaknesses" :> << [description |-> <<English(<<"C", "W", "E", "-", "7", "9">>)>>] >>,
      "weaknesses" :>
          << [description |-> << Spanish(<<"X">>), English(<<"C", "W", "E", "-", "8", "9">>),
                                 [lang |-> <<"e", "n">>] >>],
             [source |-> <<"n", "v", "d">>],
             [description |-> <<English(<<"C", "W", "E", "-", "2", "0">>)>>] >> }

DescriptionParts ==
    { EmptyDict,
      "descriptions" :> <<>>,
      "descriptions" :> <<Spanish(<<"u", "n", "o">>)>>,
      "descriptions" :> <<Spanish(<<"u", "n", "o">>), English(<<"o", "n", "e">>),
                          English(<<"t", "w", "o">>)>>,
      "descriptions" :> <<[lang |-> <<"e", "n">>]>> }

\* how the cpeMatch entries of a record are marked
CpePatterns == {"all", "mixed", "unmarked", "none"}

\* cpeMatch entry i: one in six is not vulnerable ("mixed") or has no mark
\* ("unmarked")
CpeMatch(i, pattern) ==
    ("criteria" :> (<<"c">> \o Num(i)))
    @@ (CASE pattern = "all" -> "vulnerable" :> TRUE
          [] pattern = "mixed" -> "vulnerable" :> (i % 6 # 2)
          [] pattern = "unmarked" -> IF i % 6 # 2 THEN "vulnerable" :> TRUE ELSE EmptyDict
          [] pattern = "none" -> "vulnerable" :> FALSE)
    @@ (IF i % 2 = 0 THEN "versionEndExcluding" :> Num(i) ELSE EmptyDict)
    @@ (IF i % 4 = 1 THEN "versionStartIncluding" :> Num(i) ELSE EmptyDict)

CpeMatches(n, pattern) == [i \in 1..n |-> CpeMatch(i, pattern)]

\* how the cpeMatch entries are spread over configurations and nodes
CpeShapes == {"one_node", "own_configuration", "split"}

Configurations(matches, shape) ==
    CASE shape = "one_node" -> << [nodes |-> <<[cpeMatch |-> matches]>>] >>
      [] shape = "own_configuration" ->
            [i \in 1..Len(matches) |-> [nodes |-> <<[cpeMatch |-> <<matches[i]>>]>>]]
      [] shape = "split" ->
            LET half == Len(matches) \div 2 IN
            << [nodes |-> << [cpeMatch |-> SubSeq(matches, 1, half)],
                             [operator |-> <<"O", "R">>] >>],
               [operator |-> <<"A", "N", "D">>],
               [nodes |-> <<[cpeMatch |-> SubSeq(matches, half + 1, Len(matches))]>>] >>

\* configurations: absent, or up to MaxCpe cpeMatch entries
ConfigurationParts ==
    { EmptyDict }
    \cup { "configurations" :> Configurations(CpeMatches(n, pattern), shape) :
             n \in 0..MaxCpe, pattern \in CpePatterns, shape \in CpeShapes }

\* reference i
Reference(i) ==
    ("url" :> (<<"u">> \o Num(i)))
    @@ (IF i % 2 = 1 THEN "source" :> <<"s">> ELSE EmptyDict)
    @@ (IF i % 3 = 0 THEN "tags" :> <<<<"t">>>> ELSE EmptyDict)

\* references: absent, or up to MaxRefs of them
ReferenceParts ==
    { EmptyDict } \cup { "references" :> [i \in 1..n |-> Reference(i)] : n \in 0..MaxRefs }

\* the scalar fields of a record, all there or all absent
HeaderParts ==
    { EmptyDict,
      [ id |-> CanonicalId, published |-> <<"2", "0", "2", "3">>,
        lastModified |-> <<"2", "0", "2", "4">>, sourceIdentifier |-> <<"n", "v", "d">>,
        vulnStatus |-> <<"A">> ] }

FullMetrics ==
    "metrics" :> (("cvssMetricV31" :> V31Blocks) @@ ("cvssMetricV30" :> V30Blocks)
                  @@ ("cvssMetricV2" :> V2Blocks))
FullWeaknesses == "weaknesses" :> << [description |-> <<English(<<"C", "W", "E", "-", "7", "9">>)>>] >>
FullDescriptions == "descriptions" :> <<English(<<"o", "n", "e">>)>>
FullConfigurations == "configurations" :> Configurations(CpeMatches(2, "mixed"), "one_node")
FullReferences == "references" :> <<Reference(1)>>

\* the "cve" objects the NVD answers with: every subset of the five
\* sub-structures absent, and each sub-structure in every form
RawRecords ==
    { h @@ m @@ w @@ d @@ c @@ r :
        h \in HeaderParts, m \in MetricsParts,
        w \in {EmptyDict, FullWeaknesses}, d \in {EmptyDict, FullDescriptions},
        c \in {EmptyDict, FullConfigurations}, r \in {EmptyDict, FullReferences} }
    \cup
    { h @@ m @@ w @@ d @@ c @@ r :
        h \in HeaderParts, m \in {EmptyDict, FullMetrics},
        w \in WeaknessParts, d \in DescriptionParts,
        c \in {EmptyDict, FullConfigurations}, r \in {EmptyDict, FullReferences} }
    \cup
    { h @@ m @@ w @@ d @@ c @@ r :
        h \in {EmptyDict}, m \in {EmptyDict, FullMetrics},
        w \in {EmptyDict}, d \in {EmptyDict},
        c \in ConfigurationParts, r \in ReferenceParts }

\* a 200 answer that carries one record
Found(cve_item) ==
    [kind |-> "200", body |-> [totalResults |-> 1, vulnerabilities |-> <<[cve |-> cve_item]>>]]

\* a 200 answer for every record
RecordAnswers == { Found(cve_item) : cve_item \in RawRecords }

\* answers of every kind, the 200 ones with and without results
LookupAnswers ==
    { [kind |-> kind] : kind \in AnswerKinds \ {"200"} }
    \cup { [kind |-> "200", body |-> body] :
             body \in { EmptyDict,
                        [totalResults |-> 0, vulnerabilities |-> <<>>],
                        [totalResults |-> 1, vulnerabilities |-> <<>>],
                        [totalResults |-> 1],
                        [totalResults |-> 1, vulnerabilities |-> <<EmptyDict>>] } }
    \cup { Found(cve_item) :
             cve_item \in { [id |-> CanonicalId] @@ FullMetrics @@ FullReferences,
                            [id |-> CanonicalId] @@ ("metrics" :> NullDict) } }

\* the answers of the concurrent specification
SmallAnswers ==
    { [kind |-> "404"], [kind |-> "client_error"],
      Found([id |-> CanonicalId] @@ FullMetrics) }

----------------------------------------------------------------------------
(* The handlers.  pc is the suspension point a coroutine waits at.         *)

IdleCall ==
    [ op |-> "none", pc |-> "idle", query |-> <<>>, field |-> "", max_results |-> 0,
      fetched |-> "no", afterFail |-> FALSE, observed |-> NoneCache,
      arg |-> <<>>, cve_id |-> <<>>, requested |-> FALSE, answer |-> [kind |-> "none"],
      resp |-> [status |-> "none"] ]

Init ==
    /\ kev_data_cache = NoneCache
    /\ fetches = 0
    /\ fetchFailed = FALSE
    /\ calls = [c \in Callers |-> IdleCall]

\* get_kev_resource up to its first suspension: with the cache unset it calls
\* initialize_kev_data, which starts a download; else it returns the cache
get_kev_resource(c) ==
    /\ calls[c].pc = "idle"
    /\ IF kev_data_cache = NoneCache
       THEN /\ fetches' = fetches + 1
            /\ calls' = [calls EXCEPT ![c] =
                  [@ EXCEPT !.op = "get_kev_resource", !.pc = "download",
                            !.afterFail = fetchFailed]]
       ELSE /\ fetches' = fetches
            /\ calls' = [calls EXCEPT ![c] =
                  [@ EXCEPT !.op = "get_kev_resource", !.pc = "done",
                            !.afterFail = fetchFailed,
                            !.observed = kev_data_cache,
                            !.resp = [status |-> "catalog"]]]
    /\ UNCHANGED <<kev_data_cache, fetchFailed>>

\* search_kev up to its first suspension, called with some query, field and
\* max_results: the download of initialize_kev_data when the cache is unset
\* (lines 701-702), else ctx.info (line 704)
search_kev(c, queries, fields, maxes) ==
    /\ calls[c].pc = "idle"
    /\ \E query \in queries, field \in fields, max_results \in maxes :
          IF kev_data_cache = NoneCache
          THEN /\ fetches' = fetches + 1
               /\ calls' = [calls EXCEPT ![c] =
                     [@ EXCEPT !.op = "search_kev", !.pc = "download",
                               !.query = query, !.field = field,
                               !.max_results = max_results,
                               !.afterFail = fetchFailed]]
          ELSE /\ fetches' = fetches
               /\ calls' = [calls EXCEPT ![c] =
                     [@ EXCEPT !.op = "search_kev", !.pc = "info",
                               !.query = query, !.field = field,
                               !.max_results = max_results,
                               !.afterFail = fetchFailed]]
    /\ UNCHANGED <<kev_data_cache, fetchFailed>>

\* download_kev_data returns, with one of the feeds when the status is 200,
\* and initialize_kev_data stores what it returned (line 48);
\* get_kev_resource then returns the cache (line 681), search_kev goes on to
\* ctx.info (line 704)
initialize_kev_data(c, feeds) ==
    /\ calls[c].pc = "download"
    /\ \E outcome \in Outcomes : \E body \in Bodies(outcome, feeds) :
          LET downloaded == download_kev_data(outcome, body) IN
          /\ kev_data_cache' = downloaded
          /\ fetchFailed' = (fetchFailed \/ outcome # "200")
          /\ calls' = [calls EXCEPT ![c] =
                IF @.op = "get_kev_resource"
                THEN [@ EXCEPT !.pc = "done",
                               !.fetched = IF outcome = "200" THEN "ok" ELSE "failed",
                               !.observed = downloaded,
                               !.resp = [status |-> "catalog"]]
                ELSE [@ EXCEPT !.pc = "info",
                               !.fetched = IF outcome = "200" THEN "ok" ELSE "failed"]]
    /\ UNCHANGED fetches

\* search_kev from the return of ctx.info (line 704) to its end: it reads
\* kev_data_cache now (line 721)
search_kev_body(c) ==
    /\ calls[c].pc = "info"
    /\ LET call == calls[c] IN
       calls' = [calls EXCEPT ![c] =
          [@ EXCEPT !.pc = "done",
                    !.observed = kev_data_cache,
                    !.resp = SearchBody(kev_data_cache, call.query, call.field,
                                        call.max_results)]]
    /\ UNCHANGED <<kev_data_cache, fetches, fetchFailed>>

\* get_cve_from_nist up to its first suspension, called with some
\* identifier: it returns at once when the identifier is rejected
\* (lines 239-249), else it waits in ctx.info (line 251)
get_cve_from_nist(c, ids) ==
    /\ calls[c].pc = "idle"
    /\ \E arg \in ids :
          LET cve_id == normalize_cve_id(arg) IN
          calls' = [calls EXCEPT ![c] =
             IF valid_cve_format(cve_id)
             THEN [@ EXCEPT !.op = "get_cve_from_nist", !.pc = "nist_info",
                            !.arg = arg, !.cve_id = cve_id]
             ELSE [@ EXCEPT !.op = "get_cve_from_nist", !.pc = "done",
                            !.arg = arg, !.cve_id = cve_id,
                            !.resp = invalid_format_envelope]]
    /\ UNCHANGED <<kev_data_cache, fetches, fetchFailed>>

\* ctx.info returns and make_nist_request sends its GET (lines 251-258, 97)
nist_request(c) ==
    /\ calls[c].pc = "nist_info"
    /\ calls' = [calls EXCEPT ![c] = [@ EXCEPT !.pc = "nist_wait", !.requested = TRUE]]
    /\ UNCHANGED <<kev_data_cache, fetches, fetchFailed>>

\* nist_response that drops the catalog when the lookup does not find the
\* record
nist_response_dropping_cache(c, answers) ==
    /\ calls[c].pc = "nist_wait"
    /\ \E answer \in answers :
          LET call == calls[c]
              result == lookup_result(call.cve_id, answer)
          IN /\ calls' = [calls EXCEPT ![c] =
                   [@ EXCEPT !.pc = "done", !.answer = answer, !.resp = result]]
             /\ kev_data_cache' =
                   IF result.status = "found" THEN kev_data_cache ELSE NoneCache
    /\ UNCHANGED <<fetches, fetchFailed>>

\* the GET ends with one of the answers and get_cve_from_nist runs to its
\* end (lines 97-109, 260-401)
nist_response(c, answers) ==
    /\ calls[c].pc = "nist_wait"
    /\ \E answer \in answers :
          LET call == calls[c] IN
          calls' = [calls EXCEPT ![c] =
             [@ EXCEPT !.pc = "done", !.answer = answer,
                       !.resp = lookup_result(call.cve_id, answer)]]
    /\ UNCHANGED <<kev_data_cache, fetches, fetchFailed>>

\* Concurrent handlers on one event loop, search_kev with its default
\* max_results.
Next ==
    \E c \in Callers :
        \/ get_kev_resource(c)
        \/ search_kev(c, {<<"C">>}, {"all", "severity"}, {10})
        \/ initialize_kev_data(c, SmallFeed)
        \/ search_kev_body(c)
        \/ get_cve_from_nist(c, {<<"1">>, BareId})
        \/ nist_request(c)
        \/ nist_response(c, SmallAnswers)

Spec == Init /\ [][Next]_vars

\* One search at a time, over every feed, query, field and max_results.
SearchNext ==
    \/ search_kev(1, Queries, Fields, MaxResultsValues)
    \/ initialize_kev_data(1, Catalogs)
    \/ search_kev_body(1)

SearchSpec == Init /\ [][SearchNext]_vars

\* One lookup at a time, over every identifier and every kind of answer.
LookupNext ==
    \/ get_cve_from_nist(1, LookupIds)
    \/ nist_request(1)
    \/ nist_response(1, LookupAnswers)

LookupSpec == Init /\ [][LookupNext]_vars

\* One lookup of a valid identifier, answered with every record.
NormalizeNext ==
    \/ get_cve_from_nist(1, {CanonicalId, BareId})
    \/ nist_request(1)
    \/ nist_response(1, RecordAnswers)

NormalizeSpec == Init /\ [][NormalizeNext]_vars

\* the callers of the specification with fairness
FairCallers == 1..NFairCallers

\* a feed with a row that has no dateAdded
GappyFeed == { Catalog(<<Entry1, Entry4>>) }

\* Concurrent get_kev_resource and search_kev on an event loop that runs
\* the coroutines that can run: downloads end, and ctx.info returns.
FairNext ==
    \E c \in FairCallers :
        \/ get_kev_resource(c)
        \/ search_kev(c, {<<"C">>}, {"all", "severity"}, {10})
        \/ initialize_kev_data(c, GappyFeed)
        \/ search_kev_body(c)

\* a step that ends a download or a ctx.info
Resume ==
    \E c \in FairCallers : initialize_kev_data(c, GappyFeed) \/ search_kev_body(c)

\* every call is made once, so a call that waits is resumed when the loop
\* never stops resuming calls that wait
FairSpec == Init /\ [][FairNext]_vars /\ WF_vars(Resume)

----------------------------------------------------------------------------
(* Properties of the catalog cache under concurrent handlers (Spec).       *)

\* the call is one of get_kev_resource or search_kev
CatalogCall(c) == calls[c].op \in {"get_kev_resource", "search_kev"}
Started(c) == calls[c].pc # "idle" /\ CatalogCall(c)
Done(c) == calls[c].pc = "done"
\* the call started while the cache was unset: it ran a download of its own
Early(c) == calls[c].fetched # "no"
SearchDone(c) == Done(c) /\ calls[c].op = "search_kev"

\* C1: however many get_kev_resource and search_kev calls start while the
\* cache is unset or loading, exactly one download of the feed is issued in
\* the process lifetime.
C1_ExactlyOneFetch ==
    (\E c \in Callers : Started(c)) => fetches = 1

\* C2: all calls that started before the first download completed return, or
\* search over, the same catalog value.
C2_SameCatalogForAll ==
    \A c1, c2 \in Callers :
        (Done(c1) /\ Early(c1) /\ Done(c2) /\ Early(c2))
            => calls[c1].observed = calls[c2].observed

\* C3: once kev_data_cache is set, no later step replaces or changes it.
C3_ReadyNeverReplaced ==
    [][kev_data_cache # NoneCache => kev_data_cache' = kev_data_cache]_vars

\* C4: a search_kev call (with a valid field) whose download failed ends
\* without an exception, in a success envelope with zero results.
C4_FailedFetchDegrades ==
    \A c \in Callers :
        (SearchDone(c) /\ calls[c].fetched = "failed" /\ calls[c].field \in valid_fields)
            => /\ calls[c].resp.status = "success"
               /\ calls[c].resp.total_results = 0

\* C5: a call that starts after a download has failed issues no download, and
\* if it is a search (with a valid field) it returns zero results.
C5_NoRetryStaysEmpty ==
    \A c \in Callers :
        (Done(c) /\ calls[c].afterFail)
            => /\ calls[c].fetched = "no"
               /\ (calls[c].op = "search_kev" /\ calls[c].field \in valid_fields)
                     => /\ calls[c].resp.status = "success"
                        /\ calls[c].resp.total_results = 0

\* C6: a search_kev call with an invalid field returns the error envelope and
\* leaves the catalog alone: it issues no download and does not set the cache.
C6_InvalidFieldNoEffect ==
    \A c \in Callers :
        (SearchDone(c) /\ calls[c].field \notin valid_fields)
            => /\ calls[c].resp.status = "error"
               /\ calls[c].fetched = "no"

----------------------------------------------------------------------------
(* Properties of one search (SearchSpec).                                  *)

Min(a, b) == IF a < b THEN a ELSE b

\* how often x occurs in the sequence seq
Count(seq, x) == Cardinality({i \in 1..Len(seq) : seq[i] = x})

\* needle occurs in hay as a contiguous run of characters
OccursIn(needle, hay) ==
    \E k \in 0..(Len(hay) - Len(needle)) :
        \A i \in 1..Len(needle) : hay[k + i] = needle[i]

\* the text of a key of a row, the empty string when the row lacks the key
Text(row, key) == IF key \in DOMAIN row THEN row[key] ELSE <<>>

\* the search of caller 1 returned a success envelope
Succeeded == SearchDone(1) /\ calls[1].resp.status = "success"

\* the rows the search of caller 1 ran over
Rows == calls[1].observed.vulnerabilities

\* max_results was large enough for every row to be admitted
NotTruncated == calls[1].max_results >= 1 /\ calls[1].max_results >= Len(Rows)

\* every result is the projection of a row that satisfies Cond
ResultsOnlyRowsWith(Cond(_)) ==
    \A i \in 1..Len(calls[1].resp.results) :
        \E j \in 1..Len(Rows) :
            Project(Rows[j]) = calls[1].resp.results[i] /\ Cond(Rows[j])

\* the results are the projections of all the rows that satisfy Cond, each as
\* often as it is stored
ResultsAllRowsWith(Cond(_)) ==
    /\ Len(calls[1].resp.results) = Cardinality({i \in 1..Len(Rows) : Cond(Rows[i])})
    /\ \A i \in 1..Len(Rows) :
          Count(calls[1].resp.results, Project(Rows[i]))
             = Cardinality({j \in 1..Len(Rows) :
                              Project(Rows[j]) = Project(Rows[i]) /\ Cond(Rows[j])})

\* C7: for every integer max_results, a successful search returns at most
\* min(max_results, 50) entries, total_results is their number, and a
\* max_results above 50 gives what max_results = 50 gives.
C7_AtMostMaxResults ==
    Succeeded =>
        /\ Len(calls[1].resp.results) <= Min(calls[1].max_results, MaxResultsCap)
        /\ calls[1].resp.total_results = Len(calls[1].resp.results)
        /\ calls[1].max_results > MaxResultsCap
              => calls[1].resp = SearchBody(calls[1].observed, calls[1].query,
                                            calls[1].field, MaxResultsCap)

\* the indices of the first n rows that match, in stored order
FirstMatches(n) ==
    LET matching == {i \in 1..Len(Rows) : Match(Rows[i], calls[1].query, calls[1].field)}
    IN {i \in matching : Cardinality({j \in matching : j < i}) < n}

\* C8: the returned entries are exactly the first max_results matching rows
\* in stored order, returned in descending order of dateAdded.
C8_TruncateThenSort ==
    Succeeded =>
        LET results == calls[1].resp.results
            admitted == FirstMatches(Min(calls[1].max_results, MaxResultsCap))
        IN /\ Len(results) = Cardinality(admitted)
           /\ \A i \in 1..Len(Rows) :
                 Count(results, Project(Rows[i]))
                    = Cardinality({j \in admitted : Project(Rows[j]) = Project(Rows[i])})
           /\ \A i, j \in 1..Len(results) :
                 i < j => ~StrLess(results[i].date_added, results[j].date_added)

\* the rule of C9 for one row
CveIdRule(row) ==
    LET q == Lower(calls[1].query)
        id == Lower(Text(row, "cveID"))
    IN OccursIn(q, id) \/ OccursIn(id, q)

\* C9: for field = cve_id a row matches iff, both lowercased, the query
\* occurs in the row's CVE id or the CVE id occurs in the query; dashes are
\* not stripped.  Every returned entry is such a row, and when max_results
\* cuts nothing off every such row is returned.
C9_CveIdBidirectional ==
    (Succeeded /\ calls[1].field = "cve_id")
        => /\ ResultsOnlyRowsWith(CveIdRule)
           /\ NotTruncated => ResultsAllRowsWith(CveIdRule)

\* a search for C1 over a stored C-1 and a stored C1 returned the second only
C9_Witness ==
    /\ Succeeded /\ calls[1].field = "cve_id" /\ NotTruncated
    /\ calls[1].query = <<"C", "1">>
    /\ Rows = <<Entry1, Entry4>>
    /\ calls[1].resp.results = <<Project(Entry4)>>

\* the rule of C10 for one row
AllFieldsRule(row) ==
    OccursIn(Lower(calls[1].query),
             Lower(Text(row, "cveID") \o <<" ">> \o Text(row, "vendorProject") \o <<" ">>
                   \o Text(row, "product") \o <<" ">> \o Text(row, "vulnerabilityName")
                   \o <<" ">> \o Text(row, "shortDescription") \o <<" ">>
                   \o Text(row, "notes")))

\* C10: for field = all a row matches iff the lowercased query occurs in the
\* lowercased, space-joined cveID, vendorProject, product, vulnerabilityName,
\* shortDescription and notes, a missing one counting as empty; the other
\* keys never make a row match.  Every returned entry is such a row, and when
\* max_results cuts nothing off every such row is returned.
C10_AllFieldsText ==
    (Succeeded /\ calls[1].field = "all")
        => /\ ResultsOnlyRowsWith(AllFieldsRule)
           /\ NotTruncated => ResultsAllRowsWith(AllFieldsRule)

\* a search for 1 in all fields skipped the row that has 1 only in dateAdded,
\* requiredAction, dueDate and knownRansomwareCampaignUse
C10_Witness ==
    /\ Succeeded /\ calls[1].field = "all" /\ NotTruncated
    /\ calls[1].query = <<"1">>
    /\ Rows = <<Entry3, Entry1>>
    /\ calls[1].resp.results = <<Project(Entry1)>>

----------------------------------------------------------------------------
(* Properties of the summary of a record (NormalizeSpec).                  *)

LookupDone(c) == Done(c) /\ calls[c].op = "get_cve_from_nist"
\* the lookup ended after an answer of the NVD
Answered(c) == LookupDone(c) /\ calls[c].answer.kind # "none"
\* the lookup was answered with a record whose metrics are not null
GotRecord ==
    /\ Answered(1)
    /\ calls[1].answer.kind = "200"
    /\ Get(calls[1].answer.body, "vulnerabilities", <<>>) # <<>>
    /\ Get(Get(calls[1].answer.body.vulnerabilities[1], "cve", EmptyDict),
           "metrics", EmptyDict) # NullDict
\* that record
Raw == Get(calls[1].answer.body.vulnerabilities[1], "cve", EmptyDict)
RawMetrics == Get(Raw, "metrics", EmptyDict)

\* the schemes in the order of their priority
Schemes == <<"cvssMetricV31", "cvssMetricV30", "cvssMetricV2">>
\* the schemes of the record that have an entry
Scored == { i \in 1..3 : Schemes[i] \in DOMAIN RawMetrics /\ Len(RawMetrics[Schemes[i]]) > 0 }

\* C11: primary_severity and primary_score are those of the first entry of
\* the first scheme that has one, in the order v3.1, v3.0, v2, whatever the
\* scores are; with no scheme the two fields are left out.
C11_PrimaryByPriority ==
    GotRecord =>
        LET resp == calls[1].resp IN
        IF Scored = {}
        THEN "primary_severity" \notin DOMAIN resp /\ "primary_score" \notin DOMAIN resp
        ELSE LET first == CHOOSE i \in Scored : \A j \in Scored : i <= j
                 entry == RawMetrics[Schemes[first]][1]
                 data == Get(entry, "cvssData", EmptyDict)
             IN /\ "primary_severity" \in DOMAIN resp /\ "primary_score" \in DOMAIN resp
                /\ resp.primary_score = Get(data, "baseScore", NoneVal)
                /\ resp.primary_severity =
                      IF first = 3 THEN Get(entry, "baseSeverity", NoneVal)
                      ELSE Get(data, "baseSeverity", NoneVal)

\* a record with v3.1, v3.0 and v2 entries, the v2 score the highest, gave
\* the score of the first v3.1 entry
C11_Witness ==
    /\ GotRecord
    /\ Scored = {1, 2, 3}
    /\ RawMetrics.cvssMetricV2[1].cvssData.baseScore = <<"1", "0", ".", "0">>
    /\ Len(RawMetrics.cvssMetricV31) = 2
    /\ calls[1].resp.primary_score = <<"5", ".", "0">>
    /\ calls[1].resp.primary_severity = <<"M", "E", "D", "I", "U", "M">>

\* C12: a record that lacks any of metrics, weaknesses, descriptions,
\* configurations and references is summarised with status found, and each
\* part it lacks comes out empty but present: cwe, cpe_configurations and
\* references an empty list, cvss_scores an empty mapping, description the
\* empty string.
C12_AbsentPartsEmpty ==
    GotRecord =>
        LET resp == calls[1].resp IN
        /\ resp.status = "found"
        /\ {"cwe", "cpe_configurations", "references", "cvss_scores", "description"}
              \subseteq DOMAIN resp
        /\ "metrics" \notin DOMAIN Raw => resp.cvss_scores = EmptyDict
        /\ "weaknesses" \notin DOMAIN Raw => resp.cwe = <<>>
        /\ "descriptions" \notin DOMAIN Raw => resp.description = <<>>
        /\ "configurations" \notin DOMAIN Raw => resp.cpe_configurations = <<>>
        /\ "references" \notin DOMAIN Raw => resp.references = <<>>

\* a record with none of the five parts was summarised
C12_Witness ==
    /\ GotRecord
    /\ DOMAIN Raw \cap {"metrics", "weaknesses", "descriptions", "configurations",
                        "references"} = {}
    /\ calls[1].resp.status = "found"
    /\ calls[1].resp.cwe = <<>>

RECURSIVE Flatten(_)
Flatten(lists) == IF lists = <<>> THEN <<>> ELSE Head(lists) \o Flatten(Tail(lists))

\* the cpeMatch entries of the record in the order configurations, nodes,
\* cpeMatch
RawCpeMatches ==
    LET configurations == Get(Raw, "configurations", <<>>)
        OfNode(node) == Get(node, "cpeMatch", <<>>)
        OfConfiguration(configuration) ==
            LET nodes == Get(configuration, "nodes", <<>>) IN
            Flatten([j \in 1..Len(nodes) |-> OfNode(nodes[j])])
    IN Flatten([i \in 1..Len(configurations) |-> OfConfiguration(configurations[i])])

MarkedVulnerable(cpe) == "vulnerable" \in DOMAIN cpe /\ cpe.vulnerable

\* C13: cpe_configurations is the first 10 (all, if fewer) of the cpeMatch
\* entries marked vulnerable, in the order configurations, nodes, cpeMatch;
\* entries not marked vulnerable neither appear nor count.  references is
\* the first 5 (all, if fewer) references in their order.
C13_CapsKeepOrder ==
    GotRecord =>
        LET vulnerable == SelectSeq(RawCpeMatches, MarkedVulnerable)
            refs == Get(Raw, "references", <<>>)
            resp == calls[1].resp
        IN /\ Len(resp.cpe_configurations) = Min(Len(vulnerable), 10)
           /\ \A i \in 1..Len(resp.cpe_configurations) :
                 resp.cpe_configurations[i].cpe23Uri = vulnerable[i].criteria
           /\ Len(resp.references) = Min(Len(refs), 5)
           /\ \A i \in 1..Len(resp.references) : resp.references[i].url = refs[i].url

\* a record with more than 10 vulnerable cpeMatch entries, some of the first
\* 10 entries not vulnerable, and more than 5 references was cut to 10 and 5
C13_Witness ==
    /\ GotRecord
    /\ Len(SelectSeq(RawCpeMatches, MarkedVulnerable)) > 10
    /\ \E i \in 1..10 : ~MarkedVulnerable(RawCpeMatches[i])
    /\ Len(Get(Raw, "references", <<>>)) > 5
    /\ Len(calls[1].resp.cpe_configurations) = 10
    /\ Len(calls[1].resp.references) = 5

----------------------------------------------------------------------------
(* Properties of one lookup (LookupSpec).                                  *)

LookupStarted(c) == calls[c].op = "get_cve_from_nist"

\* an identifier without its surrounding whitespace, in upper case and
\* without a leading CVE-
Core(id) ==
    LET u == Upper(Strip(id)) IN
    IF Len(u) >= 4 /\ SubSeq(u, 1, 4) = <<"C", "V", "E", "-">>
    THEN SubSeq(u, 5, Len(u)) ELSE u

\* CVE, dash, 4 digits, dash, 4 or more digits
IsCanonical(id) ==
    /\ Len(id) >= 13
    /\ SubSeq(id, 1, 4) = <<"C", "V", "E", "-">>
    /\ \A i \in 5..8 : id[i] \in {"0", "1", "2", "3", "4", "5", "6", "7", "8", "9"}
    /\ id[9] = "-"
    /\ \A i \in 10..Len(id) : id[i] \in {"0", "1", "2", "3", "4", "5", "6", "7", "8", "9"}

\* C14: two identifiers that differ only in letter case, surrounding
\* whitespace and the presence of the CVE- prefix are normalized to the same
\* identifier, and an identifier of canonical form is normalized to itself.
C14_FormInsensitive ==
    LookupStarted(1) =>
        /\ \A other \in LookupIds :
              Core(other) = Core(calls[1].arg)
                  => normalize_cve_id(other) = calls[1].cve_id
        /\ IsCanonical(calls[1].arg) => calls[1].cve_id = calls[1].arg

\* a lookup of the lower-case identifier with whitespace before it got the
\* identifier that the bare year and number get
C14_Witness ==
    /\ LookupStarted(1)
    /\ calls[1].arg = <<"\t", " ">> \o <<"c", "v", "e", "-">> \o BareId
    /\ calls[1].cve_id = CanonicalId
    /\ normalize_cve_id(BareId) = CanonicalId

\* C15: a lookup whose normalized identifier is not of canonical form has
\* ended with an error envelope and has sent no request to the NVD; a
\* request is sent only for an identifier of canonical form.
C15_NoRequestUnlessValid ==
    LookupStarted(1) =>
        /\ calls[1].requested => IsCanonical(calls[1].cve_id)
        /\ ~IsCanonical(calls[1].cve_id)
              => /\ calls[1].pc = "done"
                 /\ calls[1].resp.status = "error"
                 /\ "message" \in DOMAIN calls[1].resp
                 /\ ~calls[1].requested
                 /\ calls[1].answer.kind = "none"

\* a lookup of an identifier with text after the number ended in an error
\* and sent no request
C15_Witness ==
    /\ LookupDone(1)
    /\ calls[1].cve_id = CanonicalId \o <<"E">>
    /\ calls[1].resp.status = "error"
    /\ ~calls[1].requested

\* the NVD has no record: totalResults = 0, or status 404
NoRecordAnswer(answer) ==
    \/ answer.kind = "404"
    \/ answer.kind = "200" /\ "totalResults" \in DOMAIN answer.body
                           /\ answer.body.totalResults = 0
\* the transport failed, or the status is neither of success nor 404
FailedAnswer(answer) == answer.kind \in {"client_error", "403", "3xx", "from_400"}

\* C16: a lookup of a valid identifier answered with totalResults = 0 or with
\* status 404 ends with status not_found and the normalized identifier; one
\* whose transport failed or that got another status not of success ends
\* with status error.
C16_NotFoundVsError ==
    Answered(1) =>
        /\ NoRecordAnswer(calls[1].answer)
              => /\ calls[1].resp.status = "not_found"
                 /\ calls[1].resp.cve_id = calls[1].cve_id
        /\ FailedAnswer(calls[1].answer) => calls[1].resp.status = "error"

\* C17: search_kev ends with an envelope whatever the catalog, the query,
\* the field and max_results are, and never with an exception; a lookup
\* ends with an envelope whatever the NVD answers.
C17_NoEscape ==
    /\ SearchDone(1) => calls[1].resp.status \in {"success", "error"}
    /\ Answered(1) => calls[1].resp.status \in {"found", "not_found", "error"}

----------------------------------------------------------------------------
(* Lookups beside catalog calls (Spec), and progress (FairSpec).           *)

\* C18: a step of a lookup, whatever the lookup ends with, leaves
\* kev_data_cache as it is, unset included, starts no download, and leaves
\* every other call as it is: what a get_kev_resource or search_kev call
\* running beside it or after it returns does not depend on the lookup.
C18_LookupIsLocal ==
    [][\A c \in Callers :
          (calls'[c].op = "get_cve_from_nist" /\ calls'[c] # calls[c])
              => /\ kev_data_cache' = kev_data_cache
                 /\ fetches' = fetches
                 /\ fetchFailed' = fetchFailed
                 /\ \A d \in Callers \ {c} : calls'[d] = calls[d]]_vars

\* a lookup ended with error or not_found while another call was in its
\* download, and one ended so after the catalog was stored
C18_Witness ==
    \E c, d \in Callers :
        /\ LookupDone(c) /\ calls[c].resp.status = "not_found"
        /\ LookupDone(d) /\ calls[d].resp.status = "error"
        /\ calls[d].answer.kind = "client_error"
        /\ kev_data_cache # NoneCache

\* the call returned a response
Returned(c) == Done(c) /\ calls[c].resp.status \in {"catalog", "success", "error"}

\* C19: every get_kev_resource and search_kev call that started eventually
\* returns a response, and what a call that ended read of the catalog is
\* never None.
C19_EveryCallReturns ==
    /\ \A c \in FairCallers : Started(c) ~> Returned(c)
    /\ [](\A c \in FairCallers : (Done(c) /\ CatalogCall(c) /\ calls[c].resp.status # "error")
                                 => calls[c].observed # NoneCache)

====
